---- MODULE Spec2Model ----
(***************************************************************************)
(* State machine of the Body component (src/components/Body.tsx): the     *)
(* React state of the QR generation form, the react-hook-form state, the  *)
(* handlers handleSubmit / handleSuggestionClick / handleShare, the       *)
(* hydration effect, and the committed DOM (what the last render left on  *)
(* screen, which is what decides whether a submit event can be fired).    *)
(*                                                                         *)
(* Strings that are encoded or concatenated (the url, the image url) are  *)
(* sequences of UTF-16 code units.  Strings whose content is only stored  *)
(* or measured (the prompt, messages) are TLA+ strings.                    *)
(* A nullable value is <<>> (null) or <<v>>.                               *)
(***************************************************************************)
EXTENDS Integers, Sequences, FiniteSets, TLC

\* ---------------------------------------------------------------- bounds
\* In-flight handleSubmit invocations the model follows at once.
MaxInFlight ==
    2

\* Clipboard writes whose promise has not settled that the model follows.
MaxPendingWrites ==
    1

\* ------------------------------------------------------------- constants
None ==
    <<>>

Some(v) ==
    <<v>>

promptSuggestions ==
    { "A city view with clouds",
      "A beautiful glacier",
      "A forest overlooking a mountain",
      "A saharan desert" }

\* The suggestions the user clicks.
SuggestionClicks ==
    { "A city view with clouds", "A beautiful glacier" }

UrlMinLen ==
    1

PromptMinLen ==
    3

PromptMaxLen ==
    160

\* "https://api.qrserver.com/v1/create-qr-code/?size=300x300&data="
QrEndpointPrefix ==
    <<104, 116, 116, 112, 115, 58, 47, 47, 97, 112, 105, 46, 113, 114, 115,
      101, 114, 118, 101, 114, 46, 99, 111, 109, 47, 118, 49, 47, 99, 114,
      101, 97, 116, 101, 45, 113, 114, 45, 99, 111, 100, 101, 47, 63, 115,
      105, 122, 101, 61, 51, 48, 48, 120, 51, 48, 48, 38, 100, 97, 116, 97,
      61>>

GenerateSuccessMsg ==
    "QR Code generated successfully!"

GenerateFailMsg ==
    "Failed to generate QR code. Please try again."

CopySuccessMsg ==
    "Link copied to clipboard!"

CopyFailMsg ==
    "Failed to copy link"

\* ---------------------------------------------------------------- inputs
\* "https://example.com"
ExampleUrl ==
    <<104, 116, 116, 112, 115, 58, 47, 47, 101, 120, 97, 109, 112, 108, 101,
      46, 99, 111, 109>>

\* U+00E9, one code unit outside ASCII
NonAsciiUrl ==
    <<233>>

\* "a" followed by the first half of a surrogate pair (a truncated emoji)
LoneSurrogateUrl ==
    <<97, 55357>>

\* What the user can type into the url field.
UrlInputs ==
    { <<>>, ExampleUrl, NonAsciiUrl, LoneSurrogateUrl }

Long160 ==
    "0123456789012345678901234567890123456789012345678901234567890123456789012345678901234567890123456789012345678901234567890123456789012345678901234567890123456789"

Long161 ==
    "01234567890123456789012345678901234567890123456789012345678901234567890123456789012345678901234567890123456789012345678901234567890123456789012345678901234567890"

\* What the user can type into the prompt field.
PromptInputs ==
    { "ab", Long160, Long161 }

\* Math.random() in thousandths: 0 <= r < 1.
RandomSamples ==
    { 0, 999 }

\* Math.random() as drawn for the id, in thousandths.
IdSamples ==
    { 500 }

\* Date.now() readings.
ClockSamples ==
    { 1000 }

\* The props a page can mount Body with: none, a stored QR code, and a
\* stored QR code whose latency is 0.
NoProps ==
    [ imageUrl |-> None, prompt |-> None, redirectUrl |-> None,
      modelLatency |-> None, id |-> None ]

StoredProps(latency) ==
    [ imageUrl |-> Some(<<47, 113, 46, 112, 110, 103>>),
      prompt |-> Some("A saharan desert"),
      redirectUrl |-> Some(ExampleUrl),
      modelLatency |-> Some(latency),
      id |-> Some(<<"stored", 1, 1>>) ]

PropsInputs ==
    { NoProps, StoredProps(350), StoredProps(0) }

\* -------------------------------------------------------- pure functions
\* JavaScript truthiness of an optional string prop.
TruthyString(p) ==
    p # None /\ Len(p[1]) > 0

\* JavaScript truthiness of an optional number prop.
TruthyNumber(p) ==
    p # None /\ p[1] # 0

\* The fields the zod schema rejects.
generateFormSchema_min1(values) ==
    (IF Len(values.url) >= UrlMinLen THEN {} ELSE {"url"})
    \cup (IF Len(values.prompt) >= 1 /\ Len(values.prompt) <= PromptMaxLen
          THEN {} ELSE {"prompt"})

generateFormSchema(values) ==
    (IF Len(values.url) >= UrlMinLen THEN {} ELSE {"url"})
    \cup (IF Len(values.prompt) >= PromptMinLen
             /\ Len(values.prompt) <= PromptMaxLen
          THEN {} ELSE {"prompt"})

IsUnreserved(c) ==
    \/ c \in 65..90
    \/ c \in 97..122
    \/ c \in 48..57
    \/ c \in {45, 95, 46, 33, 126, 42, 39, 40, 41}

HexDigit(d) ==
    IF d < 10 THEN 48 + d ELSE 55 + d

PercentByte(b) ==
    <<37, HexDigit(b \div 16), HexDigit(b % 16)>>

Utf8Escaped(cp) ==
    IF cp < 128 THEN PercentByte(cp)
    ELSE IF cp < 2048 THEN
        PercentByte(192 + (cp \div 64)) \o PercentByte(128 + (cp % 64))
    ELSE IF cp < 65536 THEN
        PercentByte(224 + (cp \div 4096))
        \o PercentByte(128 + ((cp \div 64) % 64))
        \o PercentByte(128 + (cp % 64))
    ELSE
        PercentByte(240 + (cp \div 262144))
        \o PercentByte(128 + ((cp \div 4096) % 64))
        \o PercentByte(128 + ((cp \div 64) % 64))
        \o PercentByte(128 + (cp % 64))

IsHighSurrogate(c) ==
    c \in 55296..56319

IsLowSurrogate(c) ==
    c \in 56320..57343

\* encodeURIComponent from code unit k on: [threw, value].
RECURSIVE EncodeFrom(_, _)
EncodeFrom(s, k) ==
    IF k > Len(s) THEN [threw |-> FALSE, value |-> <<>>]
    ELSE IF IsUnreserved(s[k]) THEN
        LET rest == EncodeFrom(s, k + 1)
        IN  [threw |-> rest.threw, value |-> <<s[k]>> \o rest.value]
    ELSE IF IsLowSurrogate(s[k]) THEN [threw |-> TRUE, value |-> <<>>]
    ELSE IF IsHighSurrogate(s[k]) THEN
        IF k + 1 > Len(s) \/ ~IsLowSurrogate(s[k + 1])
        THEN [threw |-> TRUE, value |-> <<>>]
        ELSE
            LET cp == (s[k] - 55296) * 1024 + (s[k + 1] - 56320) + 65536
                rest == EncodeFrom(s, k + 2)
            IN  [threw |-> rest.threw, value |-> Utf8Escaped(cp) \o rest.value]
    ELSE
        LET rest == EncodeFrom(s, k + 1)
        IN  [threw |-> rest.threw, value |-> Utf8Escaped(s[k]) \o rest.value]

encodeURIComponent_identity(s) ==
    [threw |-> EncodeFrom(s, 1).threw, value |-> s]

encodeURIComponent(s) ==
    LET r == EncodeFrom(s, 1)
    IN  [threw |-> r.threw, value |-> IF r.threw THEN <<>> ELSE r.value]

\* Math.floor(Math.random() * 500) + 200
ModelLatency(r) ==
    ((r * 500) \div 1000) + 200

\* `qr-${Date.now()}-${Math.random().toString(36).substr(2, 9)}`
QrId(now, r) ==
    <<"qr", now, r>>

\* `${window.location.origin}/start/${qrId}`
ShareLink(qrId) ==
    <<"origin", "/start/", qrId>>

\* The disabled attribute of the submit button.
SubmitDisabled(loading, valid) ==
    loading \/ ~valid

\* ----------------------------------------------------------------- state
VARIABLES
    isLoading,      \* useState(false)
    error,          \* useState<Error | null>(null)
    response,       \* useState<QrGenerateResponse | null>(null)
    submittedURL,   \* useState<string | null>(null)
    form,           \* useForm: field values, formState.isValid, .errors
    props,          \* the props Body was mounted with
    mounted,        \* the hydration effect of the mount has run
    pending,        \* handleSubmit invocations suspended at the await, oldest first
    dom,            \* the committed render: the button's disabled flag, the
                    \* id the Share button's onClick closes over
    toast,          \* the latest toast shown
    clipboard,      \* the text on the system clipboard
    writes,         \* clipboard writes whose promise has not settled
    unhandled,      \* a promise rejection nothing handled has been reported
    lastSubmit      \* history: how the latest submit event ended

vars ==
    <<isLoading, error, response, submittedURL, form, props, mounted, pending,
      dom, toast, clipboard, writes, unhandled, lastSubmit>>

requestVars ==
    <<isLoading, error, response, submittedURL, pending>>

shareVars ==
    <<clipboard, writes, unhandled>>

Init ==
    /\ isLoading = FALSE
    /\ error = None
    /\ response = None
    /\ submittedURL = None
    /\ form = [url |-> <<>>, prompt |-> "", isValid |-> FALSE, errors |-> {}]
    /\ props \in PropsInputs
    /\ mounted = FALSE
    /\ pending = <<>>
    /\ dom = [disabled |-> TRUE, shareId |-> None]
    /\ toast = None
    /\ clipboard = None
    /\ writes = <<>>
    /\ unhandled = FALSE
    /\ lastSubmit = "none"

\* ------------------------------------------------- React state updates
\* The four useState cells as one value; the setters called in one
\* synchronous stretch of a handler are applied as one batch.
ReactState ==
    [isLoading |-> isLoading, error |-> error, response |-> response,
     submittedURL |-> submittedURL]

Commit(st) ==
    /\ isLoading' = st.isLoading
    /\ error' = st.error
    /\ response' = st.response
    /\ submittedURL' = st.submittedURL

\* setIsLoading(true); setError(null); setResponse(null)
submitBegin_keepsResponse(st) ==
    [st EXCEPT !.isLoading = TRUE, !.error = None]

submitBegin(st) ==
    [st EXCEPT !.isLoading = TRUE, !.error = None, !.response = None]

\* setResponse(mockResponse); setSubmittedURL(data.url)
submitSuccess(st, url, mock) ==
    [st EXCEPT !.response = Some(mock), !.submittedURL = Some(url)]

\* catch: setError(new Error(...))
submitCatch_swallows(st) ==
    st

submitCatch(st) ==
    [st EXCEPT !.error = Some([message |-> GenerateFailMsg])]

\* finally: setIsLoading(false)
submitFinally_skipped(st) ==
    st

submitFinally(st) ==
    [st EXCEPT !.isLoading = FALSE]

\* The mock response built before the await.
mockResponse(encodedURL, now, r1, r2) ==
    [image_url |-> QrEndpointPrefix \o encodedURL,
     model_latency_ms |-> ModelLatency(r1),
     id |-> QrId(now, r2)]

\* ------------------------------------------------------ form (useForm)
FormValues(f) ==
    [url |-> f.url, prompt |-> f.prompt]

\* form.setValue(name, v): the value only.
setValue(f, name, v) ==
    IF name = "url" THEN [f EXCEPT !.url = v] ELSE [f EXCEPT !.prompt = v]

\* A value set and validated through the resolver: formState.isValid is the
\* whole schema's verdict, formState.errors changes for that field alone.
setValueAndValidate(f, name, v) ==
    LET g == setValue(f, name, v)
        rejected == generateFormSchema(FormValues(g))
    IN  [g EXCEPT !.isValid = (rejected = {}),
                  !.errors = (f.errors \ {name}) \cup (rejected \cap {name})]

\* form.setValue('prompt', suggestion, { shouldValidate: true })
suggestionApplied_resetsUrl(f, suggestion) ==
    setValueAndValidate([f EXCEPT !.url = <<>>], "prompt", suggestion)

suggestionApplied(f, suggestion) ==
    setValueAndValidate(f, "prompt", suggestion)

\* --------------------------------------------------------------- actions
\* useEffect: hydrate from the props, once the component has mounted.
hydrate ==
    /\ ~mounted
    /\ mounted' = TRUE
    /\ IF /\ TruthyString(props.imageUrl)
          /\ TruthyString(props.prompt)
          /\ TruthyString(props.redirectUrl)
          /\ TruthyNumber(props.modelLatency)
          /\ TruthyString(props.id)
       THEN /\ response' = Some([image_url |-> props.imageUrl[1],
                                 model_latency_ms |-> props.modelLatency[1],
                                 id |-> props.id[1]])
            /\ submittedURL' = Some(props.redirectUrl[1])
            /\ form' = setValue(setValue(form, "prompt", props.prompt[1]),
                                "url", props.redirectUrl[1])
       ELSE UNCHANGED <<response, submittedURL, form>>
    /\ UNCHANGED lastSubmit
    /\ UNCHANGED <<isLoading, error, props, pending, dom, toast>>
    /\ UNCHANGED shareVars

\* The user edits the url field (mode: 'onChange').
changeUrl ==
    /\ mounted
    /\ \E v \in UrlInputs : form' = setValueAndValidate(form, "url", v)
    /\ UNCHANGED lastSubmit
    /\ UNCHANGED <<props, mounted, dom, toast>>
    /\ UNCHANGED requestVars
    /\ UNCHANGED shareVars

\* The user edits the prompt field (mode: 'onChange').
changePrompt ==
    /\ mounted
    /\ \E v \in PromptInputs : form' = setValueAndValidate(form, "prompt", v)
    /\ UNCHANGED lastSubmit
    /\ UNCHANGED <<props, mounted, dom, toast>>
    /\ UNCHANGED requestVars
    /\ UNCHANGED shareVars

handleSuggestionClick(suggestion) ==
    /\ mounted
    /\ form' = suggestionApplied(form, suggestion)
    /\ UNCHANGED lastSubmit
    /\ UNCHANGED <<props, mounted, dom, toast>>
    /\ UNCHANGED requestVars
    /\ UNCHANGED shareVars

\* handleSubmit(data) up to its await, or through catch and finally when
\* encodeURIComponent throws.
handleSubmit(data) ==
    LET encodedURL == encodeURIComponent(data.url)
    IN  IF encodedURL.threw
        THEN /\ Commit(submitFinally(submitCatch(submitBegin(ReactState))))
             /\ toast' = Some(GenerateFailMsg)
             /\ UNCHANGED pending
        ELSE /\ Len(pending) < MaxInFlight
             /\ Commit(submitBegin(ReactState))
             /\ \E now \in ClockSamples, r1 \in RandomSamples, r2 \in IdSamples :
                    pending' = Append(pending,
                        [url |-> data.url,
                         mock |-> mockResponse(encodedURL.value, now, r1, r2)])
             /\ UNCHANGED toast

\* A submit event on the form: form.handleSubmit(handleSubmit) validates
\* the values and calls handleSubmit only when the schema accepts them.
onSubmit ==
    /\ mounted
    /\ ~dom.disabled
    /\ LET data == FormValues(form)
           rejected == generateFormSchema(data)
       IN  IF rejected = {}
           THEN /\ form' = [form EXCEPT !.errors = {}]
                /\ handleSubmit(data)
                /\ lastSubmit' = IF encodeURIComponent(data.url).threw
                                 THEN "threw" ELSE "called"
           ELSE /\ form' = [form EXCEPT !.errors = rejected]
                /\ lastSubmit' = "rejected"
                /\ UNCHANGED requestVars
                /\ UNCHANGED toast
    /\ UNCHANGED <<props, mounted, dom>>
    /\ UNCHANGED shareVars

\* The setTimeout of the oldest suspended handleSubmit fires: the rest of
\* its try block and its finally run.
timerFires ==
    /\ pending # <<>>
    /\ LET call == Head(pending)
       IN  Commit(submitFinally(submitSuccess(ReactState, call.url, call.mock)))
    /\ pending' = Tail(pending)
    /\ toast' = Some(GenerateSuccessMsg)
    /\ UNCHANGED lastSubmit
    /\ UNCHANGED <<form, props, mounted, dom>>
    /\ UNCHANGED shareVars

\* React commits a render of the current state.
Rendered ==
    [disabled |-> SubmitDisabled(isLoading, form.isValid),
     shareId |-> IF response = None THEN None ELSE Some(response[1].id)]

render ==
    /\ mounted
    /\ dom # Rendered
    /\ dom' = Rendered
    /\ UNCHANGED lastSubmit
    /\ UNCHANGED <<form, props, mounted, toast>>
    /\ UNCHANGED requestVars
    /\ UNCHANGED shareVars

\* handleShare when navigator.clipboard.writeText throws synchronously.
handleShareThrows ==
    /\ mounted
    /\ dom.shareId # None
    /\ toast' = Some(CopyFailMsg)
    /\ UNCHANGED lastSubmit
    /\ UNCHANGED <<form, props, mounted, dom>>
    /\ UNCHANGED requestVars
    /\ UNCHANGED shareVars

\* handleShare when writeText returns its promise: the promise is not
\* awaited, and the success toast follows at once.
handleShare ==
    /\ mounted
    /\ dom.shareId # None
    /\ Len(writes) < MaxPendingWrites
    /\ writes' = Append(writes, ShareLink(dom.shareId[1]))
    /\ toast' = Some(CopySuccessMsg)
    /\ UNCHANGED lastSubmit
    /\ UNCHANGED <<form, props, mounted, dom, clipboard, unhandled>>
    /\ UNCHANGED requestVars

\* The oldest clipboard write succeeds.
writeResolves ==
    /\ writes # <<>>
    /\ clipboard' = Some(Head(writes))
    /\ writes' = Tail(writes)
    /\ UNCHANGED lastSubmit
    /\ UNCHANGED <<form, props, mounted, dom, toast, unhandled>>
    /\ UNCHANGED requestVars

\* The oldest clipboard write is rejected (permission denied): nothing
\* holds the promise, so the rejection is reported as unhandled.
writeRejects ==
    /\ writes # <<>>
    /\ unhandled' = TRUE
    /\ writes' = Tail(writes)
    /\ UNCHANGED lastSubmit
    /\ UNCHANGED <<form, props, mounted, dom, toast, clipboard>>
    /\ UNCHANGED requestVars

\* The form and the generation request.
Next ==
    \/ hydrate
    \/ changeUrl
    \/ changePrompt
    \/ \E s \in SuggestionClicks : handleSuggestionClick(s)
    \/ onSubmit
    \/ timerFires
    \/ render

Spec ==
    Init /\ [][Next]_vars

\* Every timer that was set fires.
FairSpec ==
    Spec /\ WF_vars(timerFires)

\* The Share button of a mounted page.
ShareNext ==
    \/ hydrate
    \/ changeUrl
    \/ changePrompt
    \/ render
    \/ handleShareThrows
    \/ handleShare
    \/ writeResolves
    \/ writeRejects

ShareSpec ==
    Init /\ [][ShareNext]_vars

\* ------------------------------------------------- what the claims read
\* "https://api.qrserver.com/v1/create-qr-code/?size=300x300&data=https%3A%2F%2Fexample.com"
ExampleImageUrl ==
    <<104, 116, 116, 112, 115, 58, 47, 47, 97, 112, 105, 46, 113, 114, 115,
      101, 114, 118, 101, 114, 46, 99, 111, 109, 47, 118, 49, 47, 99, 114,
      101, 97, 116, 101, 45, 113, 114, 45, 99, 111, 100, 101, 47, 63, 115,
      105, 122, 101, 61, 51, 48, 48, 120, 51, 48, 48, 38, 100, 97, 116, 97,
      61, 104, 116, 116, 112, 115, 37, 51, 65, 37, 50, 70, 37, 50, 70, 101,
      120, 97, 109, 112, 108, 101, 46, 99, 111, 109>>

\* The input fails validation: url empty, or prompt shorter than 3 or
\* longer than 160.
InvalidInput(f) ==
    \/ Len(f.url) = 0
    \/ Len(f.prompt) < 3
    \/ Len(f.prompt) > 160

\* The string holds a surrogate code unit that is not part of a pair.
HasLoneSurrogate(s) ==
    \E k \in 1..Len(s) :
        \/ /\ s[k] \in 55296..56319
           /\ (k = Len(s) \/ s[k + 1] \notin 56320..57343)
        \/ /\ s[k] \in 56320..57343
           /\ (k = 1 \/ s[k - 1] \notin 55296..56319)

HexValue(c) ==
    IF c \in 48..57 THEN c - 48 ELSE c - 55

\* The byte a "%XX" at position k stands for.
EscapedByte(e, k) ==
    HexValue(e[k + 1]) * 16 + HexValue(e[k + 2])

\* The code units of a code point.
CodeUnits(cp) ==
    IF cp < 65536 THEN <<cp>>
    ELSE <<55296 + ((cp - 65536) \div 1024), 56320 + ((cp - 65536) % 1024)>>

\* Percent-decoding: the string a well-formed encoding stands for.
RECURSIVE PercentDecoded(_, _)
PercentDecoded(e, k) ==
    IF k > Len(e) THEN <<>>
    ELSE IF e[k] # 37 THEN <<e[k]>> \o PercentDecoded(e, k + 1)
    ELSE
        LET b1 == EscapedByte(e, k)
        IN  IF b1 < 128 THEN <<b1>> \o PercentDecoded(e, k + 3)
            ELSE IF b1 < 224 THEN
                CodeUnits((b1 - 192) * 64 + (EscapedByte(e, k + 3) - 128))
                \o PercentDecoded(e, k + 6)
            ELSE IF b1 < 240 THEN
                CodeUnits((b1 - 224) * 4096
                          + (EscapedByte(e, k + 3) - 128) * 64
                          + (EscapedByte(e, k + 6) - 128))
                \o PercentDecoded(e, k + 9)
            ELSE
                CodeUnits((b1 - 240) * 262144
                          + (EscapedByte(e, k + 3) - 128) * 4096
                          + (EscapedByte(e, k + 6) - 128) * 64
                          + (EscapedByte(e, k + 9) - 128))
                \o PercentDecoded(e, k + 12)

\* The characters a query value may hold: unreserved ones, "%" and the
\* upper-case hex digits.
QuerySafe(c) ==
    \/ c \in 65..90
    \/ c \in 97..122
    \/ c \in 48..57
    \/ c \in {45, 95, 46, 33, 126, 42, 39, 40, 41, 37}

\* The image url is the QR endpoint with size=300x300 and data = the
\* URL-encoding of url.
IsQrUrlFor(image, url) ==
    /\ Len(image) >= Len(QrEndpointPrefix)
    /\ SubSeq(image, 1, Len(QrEndpointPrefix)) = QrEndpointPrefix
    /\ LET data == SubSeq(image, Len(QrEndpointPrefix) + 1, Len(image))
       IN  /\ \A k \in 1..Len(data) : QuerySafe(data[k])
           /\ PercentDecoded(data, 1) = url
    /\ (url = ExampleUrl => image = ExampleImageUrl)

\* ---------------------------------------------------------------- claims
\* C1: at most one generation request is in flight at any time: the number
\* of handleSubmit invocations that have started and not finished is 0 or 1.
C1_AtMostOneInFlight ==
    Len(pending) <= 1

\* C2: a result is present only in the Success state: response is never
\* non-null while isLoading is true or while error is non-null.
C2_ResultOnlyInSuccess ==
    response # None => (~isLoading /\ error = None)

\* C3: a submit of an input that fails validation yields a validation
\* error and does not run handleSubmit: isLoading, error, response, the
\* in-flight requests and the toast are unchanged by it.
C3_InvalidSubmitRejected ==
    [][(onSubmit /\ InvalidInput(form))
        => /\ UNCHANGED <<isLoading, error, response, submittedURL, pending, toast>>
           /\ form'.errors # {}
           /\ lastSubmit' = "rejected"]_vars

C3_Witness ==
    /\ lastSubmit = "rejected"
    /\ InvalidInput(form)
    /\ form.errors # {}
    /\ ~dom.disabled

\* C4: every submit of a valid input makes exactly one service call and
\* enters Loading before it reaches Success or Failed.
C4_OneCallThroughLoading ==
    [][(onSubmit /\ ~InvalidInput(form))
        => /\ Len(pending') = Len(pending) + 1
           /\ isLoading']_vars

\* C5: when the call throws during a submit, the submit ends Failed: error
\* is non-null with a non-empty message, response is null (a previous
\* result is cleared) and isLoading is false.
C5_ThrowEndsFailed ==
    [][(onSubmit /\ ~InvalidInput(form) /\ HasLoneSurrogate(form.url))
        => /\ error' # None
           /\ Len(error'[1].message) > 0
           /\ response' = None
           /\ ~isLoading']_vars

C5_Witness ==
    /\ lastSubmit = "threw"
    /\ error # None
    /\ response = None
    /\ submittedURL # None
    /\ ~isLoading

\* C6: a clipboard write that fails, a rejected promise included, is caught
\* in handleShare and reported by the failure toast, never by the success
\* toast, and never left unhandled.
C6_ShareFailureCaught ==
    [][writeRejects
        => /\ ~unhandled'
           /\ toast' = Some(CopyFailMsg)]_vars

C8_SuggestionFrame ==
    [][\A text \in SuggestionClicks :
        handleSuggestionClick(text)
        => /\ form'.prompt = text
           /\ form'.url = form.url
           /\ UNCHANGED <<isLoading, error, response, submittedURL, pending,
                          toast, lastSubmit>>
           /\ suggestionApplied(form', text) = form']_vars

C8_Witness ==
    /\ form.prompt = "A beautiful glacier"
    /\ form.url = ExampleUrl
    /\ isLoading

\* C9: when a submit ends in Success, the result's image url is the QR
\* endpoint with size=300x300 and data = the URL-encoding of that submit's
\* url, its latency is a positive integer, and submittedURL is that url.
C9_SuccessResult ==
    [][timerFires
        => /\ response' # None
           /\ IsQrUrlFor(response'[1].image_url, Head(pending).url)
           /\ response'[1].model_latency_ms \in Nat \ {0}
           /\ submittedURL' = Some(Head(pending).url)]_vars

C9_Witness ==
    /\ response # None
    /\ response[1].image_url = ExampleImageUrl
    /\ submittedURL = Some(ExampleUrl)
    /\ ~isLoading

\* C10: Loading never persists: every state where isLoading is true is
\* followed by one where isLoading is false and exactly one of response
\* and error is non-null.
C10_LoadingEnds ==
    isLoading ~> (~isLoading /\ ((response # None) # (error # None)))

C10_Witness ==
    /\ ~isLoading
    /\ pending = <<>>
    /\ toast = Some(GenerateSuccessMsg)
    /\ response # None
    /\ error = None

====
